---- MODULE Spec2Model ----
(***************************************************************************)
(* A model of src/gain.rs of rtk: the `gain` report.                       *)
(*                                                                         *)
(*   - normalize_cmd_name    the canonicalizer of command labels           *)
(*   - normalize_by_command  the re-aggregator (weighted-average merge)    *)
(*   - print_ascii_graph     the by-day bar chart                          *)
(*   - run, export_json, export_csv, print_daily_full, print_weekly,       *)
(*     print_monthly         the control flow of one report/export run     *)
(*                                                                         *)
(* Strings are sequences of one-character strings, so that starts_with     *)
(* and replacen work on characters as str's methods do.                    *)
(***************************************************************************)
EXTENDS Integers, Sequences, FiniteSets, TLC

(***************************************************************************)
(* Bounds of the model.                                                    *)
(***************************************************************************)
\* the labels given to normalize_cmd_name are concatenations of at most
\* MaxSegs pieces of LabelPieces
MaxSegs == 3
\* normalize_by_command is given at most MaxRows rows
MaxRows == 3
\* print_ascii_graph is given at most MaxDays days, each of a value in
\* 0 .. MaxValue
MaxDays == 3
MaxValue == 12

VARIABLES
    \* one call of normalize_cmd_name, and a second one on its result
    label, once, twice, cstep,
    \* one call of normalize_by_command: its argument, the number of rows the
    \* loop has consumed, its locals `order` and `merged`, and what it returns
    entries, pos, order, merged, result, astep,
    \* one call of print_ascii_graph: its argument, max_val, the number of
    \* rows printed and the lines printed
    data, max_val, row, lines, gstep,
    \* one call of run: its arguments, what the tracking store holds, the
    \* place the run has reached, the local `summary` and the ExportData
    \* being built, what was printed, the store queries issued, and how the
    \* run ended (the Result it returns)
    args, store, pc, summary, export, out, queries, outcome

canonVars == <<label, once, twice, cstep>>
aggVars == <<entries, pos, order, merged, result, astep>>
graphVars == <<data, max_val, row, lines, gstep>>
runVars == <<args, store, pc, summary, export, out, queries, outcome>>
vars == <<canonVars, aggVars, graphVars, runVars>>
\* what a call of one function leaves alone: the variables of the others
notCanon == <<aggVars, graphVars, runVars>>
notAgg == <<canonVars, graphVars, runVars>>
notGraph == <<canonVars, aggVars, runVars>>
notRun == <<canonVars, aggVars, graphVars>>

----------------------------------------------------------------------------
(***************************************************************************)
(* Strings.                                                                *)
(***************************************************************************)
Rtk == <<"r", "t", "k", " ">>
RtkRunErr == Rtk \o <<"r", "u", "n", "-", "e", "r", "r">>
RtkRunTest == Rtk \o <<"r", "u", "n", "-", "t", "e", "s", "t">>
RtkRead == Rtk \o <<"r", "e", "a", "d">>
RtkErr == Rtk \o <<"e", "r", "r">>
RtkTest == Rtk \o <<"t", "e", "s", "t">>
RtkCat == Rtk \o <<"c", "a", "t">>
RtkGitStatus == Rtk \o <<"g", "i", "t", " ", "s", "t", "a", "t", "u", "s">>
Space == <<" ">>
Dash == <<"-">>

\* str::starts_with
starts_with(s, prefix) ==
    /\ Len(prefix) <= Len(s)
    /\ SubSeq(s, 1, Len(prefix)) = prefix

\* str::find: the index of the first match of pat in s, 0 when there is none
find(s, pat) ==
    LET hits == {i \in 1..(Len(s) - Len(pat) + 1) :
                    SubSeq(s, i, i + Len(pat) - 1) = pat}
    IN IF hits = {} THEN 0 ELSE CHOOSE i \in hits : \A j \in hits : i <= j

\* str::rfind: the index of the last match of pat in s, 0 when there is none
rfind(s, pat) ==
    LET hits == {i \in 1..(Len(s) - Len(pat) + 1) :
                    SubSeq(s, i, i + Len(pat) - 1) = pat}
    IN IF hits = {} THEN 0 ELSE CHOOSE i \in hits : \A j \in hits : i >= j

\* str::replacen: the first `count` matches of `from`, left to right and
\* non-overlapping, replaced by `to`
RECURSIVE replacen(_, _, _, _)
replacen(s, from, to, count) ==
    IF count = 0 THEN s
    ELSE LET i == find(s, from)
         IN IF i = 0 THEN s
            ELSE SubSeq(s, 1, i - 1) \o to
                 \o replacen(SubSeq(s, i + Len(from), Len(s)), from, to, count - 1)

\* the last match of `from` replaced by `to` (str::rfind and replace_range)
replace_last(s, from, to) ==
    LET i == rfind(s, from)
    IN IF i = 0 THEN s
       ELSE SubSeq(s, 1, i - 1) \o to \o SubSeq(s, i + Len(from), Len(s))

----------------------------------------------------------------------------
(***************************************************************************)
(* normalize_cmd_name (gain.rs 281-294).                                   *)
(***************************************************************************)
\* a slip: the prefix test without its trailing space
normalize_cmd_name_no_space(cmd) ==
    IF cmd = RtkRunErr THEN RtkErr
    ELSE IF cmd = RtkRunTest THEN RtkTest
    ELSE IF cmd = RtkRead \/ starts_with(cmd, RtkRead)
         THEN replacen(cmd, RtkRead, RtkCat, 1)
    ELSE cmd

\* a slip: the last occurrence of "rtk read" replaced instead of the first
normalize_cmd_name_last(cmd) ==
    IF cmd = RtkRunErr THEN RtkErr
    ELSE IF cmd = RtkRunTest THEN RtkTest
    ELSE IF cmd = RtkRead \/ starts_with(cmd, RtkRead \o Space)
         THEN replace_last(cmd, RtkRead, RtkCat)
    ELSE cmd

normalize_cmd_name(cmd) ==
    IF cmd = RtkRunErr THEN RtkErr
    ELSE IF cmd = RtkRunTest THEN RtkTest
    ELSE IF cmd = RtkRead \/ starts_with(cmd, RtkRead \o Space)
         THEN replacen(cmd, RtkRead, RtkCat, 1)
    ELSE cmd

----------------------------------------------------------------------------
(***************************************************************************)
(* f64 (IEEE 754 binary64, round to nearest, ties to even), as far as      *)
(* gain.rs uses it: `n as f64` of a small integer (exact), the quotient of *)
(* two such integers, the product of an f64 and such an integer, and       *)
(* `x as u64` / `x as usize` (truncation toward zero).                     *)
(*                                                                         *)
(* A positive f64 is [m, e]: m its 53-bit significand as five limbs, the   *)
(* leading bit (1) and four limbs of 13 bits, most significant first, and  *)
(* e the exponent of the last bit: its value is LimbsToInt(m) * 2^e. Zero  *)
(* is F64Zero. The integer-valued sums of products the code keeps in f64   *)
(* (weighted_pct_sum, weighted_time_sum) stay far below 2^53 in this       *)
(* model, where f64 holds them exactly; they are kept as integers.         *)
(* Integer operands are below 2^17.                                        *)
(***************************************************************************)
MantBits == 53
LimbBits == (MantBits - 1) \div 4
LimbBase == 2 ^ LimbBits

F64Zero == [m |-> <<>>, e |-> 0]

\* the number the limbs denote (where it fits an integer of the model)
RECURSIVE LimbsToInt(_)
LimbsToInt(l) ==
    IF l = <<>> THEN 0
    ELSE LimbsToInt(SubSeq(l, 1, Len(l) - 1)) * LimbBase + l[Len(l)]

\* long division of the limbs by d, `rem` carried in from the left:
\* the quotient's limbs and the remainder
RECURSIVE DivLimbs(_, _, _)
DivLimbs(l, rem, d) ==
    IF l = <<>> THEN [q |-> <<>>, rem |-> rem]
    ELSE LET cur == rem * LimbBase + Head(l)
             rest == DivLimbs(Tail(l), cur % d, d)
         IN [q |-> <<cur \div d>> \o rest.q, rem |-> rest.rem]

\* the limbs times the integer k, exactly; the first limb takes the carry
RECURSIVE MulLimbsFrom(_, _, _, _)
MulLimbsFrom(l, i, carry, k) ==
    IF i = 1 THEN <<l[1] * k + carry>>
    ELSE LET d == l[i] * k + carry
         IN Append(MulLimbsFrom(l, i - 1, d \div LimbBase, k), d % LimbBase)

MulLimbs(l, k) == MulLimbsFrom(l, Len(l), 0, k)

\* the limbs plus one
RECURSIVE IncLimbs(_)
IncLimbs(l) ==
    IF Len(l) = 1 THEN <<l[1] + 1>>
    ELSE IF l[Len(l)] + 1 < LimbBase
    THEN SubSeq(l, 1, Len(l) - 1) \o <<l[Len(l)] + 1>>
    ELSE IncLimbs(SubSeq(l, 1, Len(l) - 1)) \o <<0>>

\* a 53-bit quotient q (last bit at exponent e), rounded to nearest, ties
\* to even: up when the remainder is more than half the divisor, or half
\* of it and q is odd
RoundLimbs(q, e, rem, d) ==
    LET up == 2 * rem > d \/ (2 * rem = d /\ q[Len(q)] % 2 = 1)
        r == IF up THEN IncLimbs(q) ELSE q
    IN IF r[1] = 2
       THEN [m |-> <<1>> \o [i \in 1..(Len(q) - 1) |-> 0], e |-> e + 1]
       ELSE [m |-> r, e |-> e]

\* (a as f64) / (b as f64), for integers a >= 0 and b > 0
F64DivInt(a, b) ==
    IF a = 0 THEN F64Zero
    ELSE LET up == IF a >= b THEN 0
                   ELSE CHOOSE j \in 1..30 : b <= a * 2^j /\ a * 2^j < 2 * b
             down == IF a < b THEN 0
                     ELSE CHOOSE j \in 0..30 : b * 2^j <= a /\ a < b * 2^(j + 1)
             n == a * 2^up
             d == b * 2^down
             res == DivLimbs(<<n, 0, 0, 0, 0>>, 0, d)
         IN RoundLimbs(res.q, down - up - (MantBits - 1), res.rem, d)

\* `n as f64`
F64FromInt(n) == F64DivInt(n, 1)

\* x * (k as f64), for an integer k >= 0
F64MulInt(x, k) ==
    IF x = F64Zero \/ k = 0 THEN F64Zero
    ELSE LET p == MulLimbs(x.m, k)
             s == CHOOSE j \in 0..30 : 2^j <= p[1] /\ p[1] < 2^(j + 1)
             res == DivLimbs(p, 0, 2^s)
         IN RoundLimbs(res.q, x.e + s, res.rem, 2^s)

\* floor(LimbsToInt(l) / 2^s), for s >= 0
FloorShift(l, s) ==
    LET w == IF s \div LimbBits < Len(l) THEN s \div LimbBits ELSE Len(l) - 1
        r == s - w * LimbBits
        kept == SubSeq(l, 1, Len(l) - w)
        high == LimbsToInt(SubSeq(kept, 1, Len(kept) - 1))
        low == kept[Len(kept)]
    IN IF r >= LimbBits
       THEN (IF r > 30 THEN 0 ELSE low \div 2^r)
       ELSE high * 2^(LimbBits - r) + low \div 2^r

\* `x as u64`, `x as usize`: truncation toward zero (0 <= x < 2^31)
F64Trunc(x) == IF x = F64Zero THEN 0 ELSE FloorShift(x.m, 0 - x.e)

\* floor(x * k), computed exactly (no f64 rounding): how a decimal such as
\* "about 78.33" is read off an f64
FloorTimes(x, k) ==
    IF x = F64Zero THEN 0 ELSE FloorShift(MulLimbs(x.m, k), 0 - x.e)

----------------------------------------------------------------------------
(***************************************************************************)
(* The canonicalizer, called once and then again on its own result.        *)
(***************************************************************************)
LabelPieces ==
    {RtkRead, RtkRunErr, RtkRunTest, RtkCat, RtkGitStatus, Space, Dash,
     <<"m", "e">>}

RECURSIVE Concat(_)
Concat(ps) == IF ps = <<>> THEN <<>> ELSE Head(ps) \o Concat(Tail(ps))

Labels == {Concat(ps) : ps \in UNION {[1..n -> LabelPieces] : n \in 0..MaxSegs}}

CanonIdle ==
    /\ label = <<>>
    /\ once = <<>>
    /\ twice = <<>>
    /\ cstep = "idle"

CanonInit ==
    /\ label \in Labels
    /\ once = <<>>
    /\ twice = <<>>
    /\ cstep = "start"

Canonicalize ==
    /\ cstep = "start"
    /\ once' = normalize_cmd_name(label)
    /\ cstep' = "once"
    /\ UNCHANGED <<label, twice>>
    /\ UNCHANGED notCanon

CanonicalizeAgain ==
    /\ cstep = "once"
    /\ twice' = normalize_cmd_name(once)
    /\ cstep' = "twice"
    /\ UNCHANGED <<label, once>>
    /\ UNCHANGED notCanon

----------------------------------------------------------------------------
(***************************************************************************)
(* normalize_by_command (gain.rs 301-336).                                 *)
(*                                                                         *)
(* A row is [cmd, count, saved, pct, avg_time]; pct is an f64 holding a    *)
(* whole number in the rows of this model, except in the rows returned,    *)
(* where it is the f64 quotient. An accumulator is [count, saved, wpct,    *)
(* wtime]: the tuple (usize, usize, f64, f64) of `merged`.                 *)
(***************************************************************************)
Row(cmd, count, saved, pct, avg_time) ==
    [cmd |-> cmd, count |-> count, saved |-> saved, pct |-> pct,
     avg_time |-> avg_time]

\* a slip: the key pushed for every row, not only on first sight
PushEveryRow(ord, mer, canonical) ==
    [order |-> Append(ord, canonical),
     merged |-> IF canonical \in DOMAIN mer THEN mer
                ELSE mer @@ (canonical :> [count |-> 0, saved |-> 0,
                                           wpct |-> 0, wtime |-> 0])]

\* merged.entry(canonical).or_insert_with(|| { order.push(..); (0,0,0.0,0.0) })
OrInsertWith(ord, mer, canonical) ==
    IF canonical \in DOMAIN mer
    THEN [order |-> ord, merged |-> mer]
    ELSE [order |-> Append(ord, canonical),
          merged |-> mer @@ (canonical :> [count |-> 0, saved |-> 0,
                                           wpct |-> 0, wtime |-> 0])]

\* a slip: a later row of the same label replaces the counts of the earlier
\* ones
AccumulateOverwrite(acc, r) ==
    [count |-> r.count,
     saved |-> r.saved,
     wpct |-> acc.wpct + r.pct * r.count,
     wtime |-> acc.wtime + r.avg_time * r.count]

\* a slip: the averages summed unweighted
AccumulateUnweighted(acc, r) ==
    [count |-> acc.count + r.count,
     saved |-> acc.saved + r.saved,
     wpct |-> acc.wpct + r.pct,
     wtime |-> acc.wtime + r.avg_time]

\* entry.0 += count; entry.1 += saved; entry.2 += pct * count as f64;
\* entry.3 += avg_time as f64 * count as f64
Accumulate(acc, r) ==
    [count |-> acc.count + r.count,
     saved |-> acc.saved + r.saved,
     wpct |-> acc.wpct + r.pct * r.count,
     wtime |-> acc.wtime + r.avg_time * r.count]

\* the body of the loop over the entries, on the locals [order, merged]
Consume(st, r) ==
    LET canonical == normalize_cmd_name(r.cmd)
        ins == OrInsertWith(st.order, st.merged, canonical)
    IN [order |-> ins.order,
        merged |-> [ins.merged EXCEPT ![canonical] = Accumulate(@, r)]]

\* the closure mapped over `order`: the row of one canonical name
EmitRow(name, acc) ==
    [cmd |-> name,
     count |-> acc.count,
     saved |-> acc.saved,
     pct |-> IF acc.count > 0 THEN F64DivInt(acc.wpct, acc.count) ELSE F64Zero,
     avg_time |-> IF acc.count > 0
                  THEN F64Trunc(F64DivInt(acc.wtime, acc.count))
                  ELSE 0]

Emit(st) == [i \in 1..Len(st.order) |-> EmitRow(st.order[i], st.merged[st.order[i]])]

RECURSIVE ConsumeAll(_, _)
ConsumeAll(st, es) ==
    IF es = <<>> THEN st ELSE ConsumeAll(Consume(st, Head(es)), Tail(es))

\* HashMap::new()
EmptyMap == [k \in {} |-> 0]

normalize_by_command(es) ==
    Emit(ConsumeAll([order |-> <<>>, merged |-> EmptyMap], es))

\* the rows of the model: the rows of the tests of gain.rs, under labels
\* that collide and labels that do not, and a row that counts no command
AggLabels == {RtkRunErr, RtkErr, RtkRead, RtkCat, RtkGitStatus}

AggStats ==
    {<<10, 500, 80, 100>>, <<5, 300, 75, 50>>, <<20, 1000, 70, 50>>,
     <<0, 7, 60, 30>>}

AggRows == {Row(c, t[1], t[2], t[3], t[4]) : c \in AggLabels, t \in AggStats}

AggIdle ==
    /\ entries = <<>>
    /\ pos = 0
    /\ order = <<>>
    /\ merged = EmptyMap
    /\ result = <<>>
    /\ astep = "idle"

AggInit ==
    /\ entries \in UNION {[1..n -> AggRows] : n \in 0..MaxRows}
    /\ pos = 0
    /\ order = <<>>
    /\ merged = EmptyMap
    /\ result = <<>>
    /\ astep = "loop"

\* one iteration of `for (cmd, count, saved, pct, avg_time) in entries`
AggStep ==
    /\ astep = "loop"
    /\ pos < Len(entries)
    /\ LET st == Consume([order |-> order, merged |-> merged], entries[pos + 1])
       IN /\ order' = st.order
          /\ merged' = st.merged
    /\ pos' = pos + 1
    /\ UNCHANGED <<entries, result, astep>>
    /\ UNCHANGED notAgg

\* order.into_iter().map(..).collect(): `order` and `merged` are consumed
AggEmit ==
    /\ astep = "loop"
    /\ pos = Len(entries)
    /\ result' = Emit([order |-> order, merged |-> merged])
    /\ astep' = "done"
    /\ UNCHANGED <<entries, pos, order, merged>>
    /\ UNCHANGED notAgg

----------------------------------------------------------------------------
(***************************************************************************)
(* print_ascii_graph (gain.rs 162-190). A line printed is [date, bar,      *)
(* spaces, value]: the date label, the lengths of the bar and of the       *)
(* padding, and the value (format_tokens is an external formatter).        *)
(***************************************************************************)
width == 40

\* a slip: the scale taken from the first row, not from the largest
MaxOfFirst(d) == IF d = <<>> THEN 1 ELSE d[1].value

\* data.iter().map(|(_, v)| *v).max().unwrap_or(1)
MaxOf(d) ==
    IF d = <<>> THEN 1
    ELSE LET vs == {d[i].value : i \in 1..Len(d)}
         IN CHOOSE v \in vs : \A u \in vs : u <= v

\* if date.len() >= 10 { &date[5..10] } else { date }
DateShort(date) == IF Len(date) >= 10 THEN SubSeq(date, 6, 10) ELSE date

\* ((*value as f64 / max_val as f64) * width as f64) as usize, or 0
BarLen(value, mx) ==
    IF mx > 0 THEN F64Trunc(F64MulInt(F64DivInt(value, mx), width)) ELSE 0

\* the line of one row; spaces is the usize `width - bar_len`, which
\* underflows (a panic) where this difference is negative
GraphLine(d, mx) ==
    [date |-> DateShort(d.date),
     bar |-> BarLen(d.value, mx),
     spaces |-> width - BarLen(d.value, mx),
     value |-> d.value]

print_ascii_graph(d) == [i \in 1..Len(d) |-> GraphLine(d[i], MaxOf(d))]

\* the dates of the model: an ISO date and one shorter than 10 characters
IsoDate == <<"2", "0", "2", "6", "-", "0", "1", "-", "1", "5">>
ShortDate == <<"0", "1", "-", "1", "6">>
DateAt(i) == IF i % 2 = 1 THEN IsoDate ELSE ShortDate

GraphIdle ==
    /\ data = <<>>
    /\ max_val = 0
    /\ row = 0
    /\ lines = <<>>
    /\ gstep = "idle"

GraphInit ==
    /\ \E n \in 0..MaxDays : \E vs \in [1..n -> 0..MaxValue] :
          data = [i \in 1..n |-> [date |-> DateAt(i), value |-> vs[i]]]
    /\ max_val = 0
    /\ row = 0
    /\ lines = <<>>
    /\ gstep = "start"

\* if data.is_empty() { return; }
GraphEmpty ==
    /\ gstep = "start"
    /\ data = <<>>
    /\ gstep' = "done"
    /\ UNCHANGED <<data, max_val, row, lines>>
    /\ UNCHANGED notGraph

\* let max_val = ...
GraphMax ==
    /\ gstep = "start"
    /\ data # <<>>
    /\ max_val' = MaxOf(data)
    /\ gstep' = "rows"
    /\ UNCHANGED <<data, row, lines>>
    /\ UNCHANGED notGraph

\* one iteration of `for (date, value) in data`
GraphRow ==
    /\ gstep = "rows"
    /\ row < Len(data)
    /\ lines' = Append(lines, GraphLine(data[row + 1], max_val))
    /\ row' = row + 1
    /\ UNCHANGED <<data, max_val, gstep>>
    /\ UNCHANGED notGraph

GraphEnd ==
    /\ gstep = "rows"
    /\ row = Len(data)
    /\ gstep' = "done"
    /\ UNCHANGED <<data, max_val, row, lines>>
    /\ UNCHANGED notGraph

----------------------------------------------------------------------------
(***************************************************************************)
(* run, export_json, export_csv and the three period printers (gain.rs     *)
(* 7-274, 338-408).                                                        *)
(*                                                                         *)
(* The tracking store is an external collaborator: each of its queries     *)
(* either returns what the store holds or fails. A Result is Ok or an Err  *)
(* with its source, the query that failed, and its context, the messages   *)
(* added to the error by .context(..), innermost first; `?` alone adds     *)
(* none. Running is the outcome of a run that has not returned. What is    *)
(* printed is recorded section by section with the data it shows, not      *)
(* character by character: format_tokens, format_duration and              *)
(* print_period_table are external formatters.                             *)
(***************************************************************************)
None == <<"None">>
Some(x) == <<"Some", x>>

CtxTracker == "Failed to initialize tracking database"
CtxSummary == "Failed to load token savings summary from database"

Ok == [status |-> "ok", source |-> "", context |-> <<>>]
Running == [status |-> "running", source |-> "", context |-> <<>>]

\* an Err of the store, as `?` passes it on
Err(source) == [status |-> "err", source |-> source, context |-> <<>>]

\* anyhow's Context::context on an Err
Context(e, msg) == [e EXCEPT !.context = Append(@, msg)]

\* a slip: an inverted test
NoDataInverted(s) == s.total_commands # 0

\* summary.total_commands == 0
NoData(s) == s.total_commands = 0

\* !daily && !weekly && !monthly && !all
DefaultView(a) == ~a.daily /\ ~a.weekly /\ ~a.monthly /\ ~a.all

\* all || daily, all || weekly, all || monthly
Selected(all, flag) == all \/ flag

\* a slip: an empty series still gets its section
ShowGraphAlways(a, s) == a.graph

\* graph && !summary.by_day.is_empty()
ShowGraph(a, s) == a.graph /\ s.by_day # <<>>

ESTIMATED_PRO_MONTHLY == 6000000

\* match tier { .. }: (quota_tokens, tier_name)
QuotaOf(tier) ==
    IF tier = "pro"
    THEN [quota_tokens |-> ESTIMATED_PRO_MONTHLY, tier_name |-> "Pro ($20/mo)"]
    ELSE IF tier = "5x"
    THEN [quota_tokens |-> ESTIMATED_PRO_MONTHLY * 5,
          tier_name |-> "Max 5x ($100/mo)"]
    ELSE IF tier = "20x"
    THEN [quota_tokens |-> ESTIMATED_PRO_MONTHLY * 20,
          tier_name |-> "Max 20x ($200/mo)"]
    ELSE [quota_tokens |-> ESTIMATED_PRO_MONTHLY, tier_name |-> "Pro ($20/mo)"]

\* tracker.get_recent(10)
RecentLimit == 10

\* the most recent n records the store holds
Take(s, n) == SubSeq(s, 1, IF n < Len(s) THEN n ELSE Len(s))

\* the lines of the recent-history section: the label canonicalized
HistoryRows(recent) ==
    [i \in 1..Len(recent) |->
        [timestamp |-> recent[i].timestamp,
         cmd |-> normalize_cmd_name(recent[i].rtk_cmd),
         savings_pct |-> recent[i].savings_pct,
         saved_tokens |-> recent[i].saved_tokens]]

\* ExportSummary { .. }: the seven totals of the summary
ExportSummary(s) ==
    [total_commands |-> s.total_commands,
     total_input |-> s.total_input,
     total_output |-> s.total_output,
     total_saved |-> s.total_saved,
     avg_savings_pct |-> s.avg_savings_pct,
     total_time_ms |-> s.total_time_ms,
     avg_time_ms |-> s.avg_time_ms]

ExportKeys == {"summary", "daily", "weekly", "monthly"}

\* a slip: skip_serializing_if left out, a None written as null
SerializeWithNulls(e) ==
    [k \in ExportKeys |->
        IF k = "summary" THEN e.summary
        ELSE IF e[k] = None THEN "null" ELSE e[k][2]]

\* #[derive(Serialize)] of ExportData: the keys of the JSON object and
\* their values; skip_serializing_if = "Option::is_none" on the periods
Serialize(e) ==
    [k \in {"summary"} \cup {g \in {"daily", "weekly", "monthly"} : e[g] # None} |->
        IF k = "summary" THEN e.summary ELSE e[k][2]]

(***************************************************************************)
(* What the store and the arguments of a run may be.                       *)
(***************************************************************************)
Formats == {"text", "json", "csv", "yaml"}
Tiers == {"pro", "5x", "20x", "free"}

ByDay ==
    <<[date |-> IsoDate, value |-> 300], [date |-> ShortDate, value |-> 500]>>

ByCommand ==
    <<Row(RtkRunErr, 10, 500, 80, 100), Row(RtkErr, 5, 300, 75, 50)>>

SummaryOf(n, by_command, by_day) ==
    [total_commands |-> n,
     total_input |-> n * 100,
     total_output |-> n * 40,
     total_saved |-> n * 60,
     avg_savings_pct |-> IF n = 0 THEN 0 ELSE 60,
     total_time_ms |-> n * 80,
     avg_time_ms |-> IF n = 0 THEN 0 ELSE 80,
     by_command |-> by_command,
     by_day |-> by_day]

Summaries ==
    {SummaryOf(0, <<>>, <<>>), SummaryOf(15, <<>>, <<>>),
     SummaryOf(15, ByCommand, <<>>), SummaryOf(15, ByCommand, ByDay)}

Recents ==
    {<<>>,
     <<[timestamp |-> "01-15 10:30", rtk_cmd |-> RtkRead \o Space \o Dash,
        savings_pct |-> 75, saved_tokens |-> 300]>>}

NoSummary == [total_commands |-> -1]
NoExport == [summary |-> None, daily |-> None, weekly |-> None, monthly |-> None]

RunIdle ==
    /\ args = None
    /\ store = None
    /\ pc = "idle"
    /\ summary = NoSummary
    /\ export = NoExport
    /\ out = <<>>
    /\ queries = <<>>
    /\ outcome = Running

RunInit ==
    /\ args \in [graph : BOOLEAN, history : BOOLEAN, quota : BOOLEAN,
                 tier : Tiers, daily : BOOLEAN, weekly : BOOLEAN,
                 monthly : BOOLEAN, all : BOOLEAN, format : Formats]
    /\ store \in [summary : Summaries, recent : Recents,
                  daily : {<<"2026-01-15", "2026-01-16">>},
                  weekly : {<<"2026-01-12">>},
                  monthly : {<<>>}]
    /\ pc = "new"
    /\ summary = NoSummary
    /\ export = NoExport
    /\ out = <<>>
    /\ queries = <<>>
    /\ outcome = Running

\* return Err(e) / return Ok(())
Return(res) ==
    /\ outcome' = res
    /\ pc' = "done"

\* what a query of the store the run issues may answer
Answers(held) == {Some(held), None}

\* Tracker::new().context("Failed to initialize tracking database")?
RunTrackerNew ==
    /\ pc = "new"
    /\ \/ /\ pc' = "format"
          /\ UNCHANGED outcome
       \/ Return(Context(Err("Tracker::new"), CtxTracker))
    /\ UNCHANGED <<args, store, summary, export, out, queries>>
    /\ UNCHANGED notRun

\* match format { "json" => .., "csv" => .., _ => {} }
RunMatchFormat ==
    /\ pc = "format"
    /\ pc' = CASE args.format = "json" -> "json_summary"
               [] args.format = "csv" -> "csv_daily"
               [] OTHER -> "summary"
    /\ UNCHANGED <<args, store, summary, export, out, queries, outcome>>
    /\ UNCHANGED notRun

\* tracker.get_summary().context("Failed to load token savings summary
\* from database")?, in run
RunGetSummary ==
    /\ pc = "summary"
    /\ queries' = Append(queries, "get_summary")
    /\ \E a \in Answers(store.summary) :
          IF a = None
          THEN /\ Return(Context(Err("get_summary"), CtxSummary))
               /\ UNCHANGED summary
          ELSE /\ summary' = a[2]
               /\ pc' = "no_data"
               /\ UNCHANGED outcome
    /\ UNCHANGED <<args, store, export, out>>
    /\ UNCHANGED notRun

\* if summary.total_commands == 0 { println!(..); return Ok(()); }
RunNoData ==
    /\ pc = "no_data"
    /\ NoData(summary)
    /\ out' = Append(out, [section |-> "no_data"])
    /\ Return(Ok)
    /\ UNCHANGED <<args, store, summary, export, queries>>
    /\ UNCHANGED notRun

\* the default view: the totals and the By Command table
RunDefaultView ==
    /\ pc = "no_data"
    /\ ~NoData(summary)
    /\ DefaultView(args)
    /\ out' = out \o <<[section |-> "totals", totals |-> ExportSummary(summary)]>>
              \o (IF summary.by_command # <<>>
                  THEN <<[section |-> "by_command",
                          rows |-> normalize_by_command(summary.by_command)]>>
                  ELSE <<>>)
    /\ pc' = "graph"
    /\ UNCHANGED <<args, store, summary, export, queries, outcome>>
    /\ UNCHANGED notRun

\* if graph && !summary.by_day.is_empty() { .. print_ascii_graph(..) .. }
RunGraph ==
    /\ pc = "graph"
    /\ out' = IF ShowGraph(args, summary)
              THEN Append(out, [section |-> "graph",
                                lines |-> print_ascii_graph(summary.by_day)])
              ELSE out
    /\ pc' = "history"
    /\ UNCHANGED <<args, store, summary, export, queries, outcome>>
    /\ UNCHANGED notRun

\* if history { let recent = tracker.get_recent(10)?; .. }
RunHistory ==
    /\ pc = "history"
    /\ IF args.history
       THEN /\ queries' = Append(queries, "get_recent")
            /\ \E a \in Answers(Take(store.recent, RecentLimit)) :
                  IF a = None
                  THEN /\ Return(Err("get_recent"))
                       /\ UNCHANGED out
                  ELSE /\ out' = IF a[2] # <<>>
                                 THEN Append(out, [section |-> "history",
                                                   rows |-> HistoryRows(a[2])])
                                 ELSE out
                       /\ pc' = "quota"
                       /\ UNCHANGED outcome
       ELSE /\ pc' = "quota"
            /\ UNCHANGED <<out, queries, outcome>>
    /\ UNCHANGED <<args, store, summary, export>>
    /\ UNCHANGED notRun

\* if quota { .. }; return Ok(())
RunQuota ==
    /\ pc = "quota"
    /\ out' = IF args.quota
              THEN Append(out, [section |-> "quota",
                                tier_name |-> QuotaOf(args.tier).tier_name,
                                quota_tokens |-> QuotaOf(args.tier).quota_tokens,
                                total_saved |-> summary.total_saved])
              ELSE out
    /\ Return(Ok)
    /\ UNCHANGED <<args, store, summary, export, queries>>
    /\ UNCHANGED notRun

\* the time breakdown views are entered
RunPeriodViews ==
    /\ pc = "no_data"
    /\ ~NoData(summary)
    /\ ~DefaultView(args)
    /\ pc' = "daily"
    /\ UNCHANGED <<args, store, summary, export, out, queries, outcome>>
    /\ UNCHANGED notRun

\* if all || flag { print_xxx(&tracker)?; } with print_xxx:
\* let rows = tracker.query()?; print_period_table(&rows); Ok(())
PrintPeriod(at, flag, query, next) ==
    /\ pc = at
    /\ IF Selected(args.all, args[flag])
       THEN /\ queries' = Append(queries, query)
            /\ \E a \in Answers(store[flag]) :
                  IF a = None
                  THEN /\ Return(Err(query))
                       /\ UNCHANGED out
                  ELSE /\ out' = Append(out, [section |-> flag, rows |-> a[2]])
                       /\ IF next = "done"
                          THEN Return(Ok)
                          ELSE pc' = next /\ UNCHANGED outcome
       ELSE /\ IF next = "done"
               THEN Return(Ok)
               ELSE pc' = next /\ UNCHANGED outcome
            /\ UNCHANGED <<out, queries>>
    /\ UNCHANGED <<args, store, summary, export>>
    /\ UNCHANGED notRun

print_daily_full == PrintPeriod("daily", "daily", "get_all_days", "weekly")
print_weekly == PrintPeriod("weekly", "weekly", "get_by_week", "monthly")
print_monthly == PrintPeriod("monthly", "monthly", "get_by_month", "done")

\* export_json: tracker.get_summary().context(..)? and the summary field
ExportJsonSummary ==
    /\ pc = "json_summary"
    /\ queries' = Append(queries, "get_summary")
    /\ \E a \in Answers(store.summary) :
          IF a = None
          THEN /\ Return(Context(Err("get_summary"), CtxSummary))
               /\ UNCHANGED <<summary, export>>
          ELSE /\ summary' = a[2]
               /\ export' = [export EXCEPT !.summary = ExportSummary(a[2])]
               /\ pc' = "json_daily"
               /\ UNCHANGED outcome
    /\ UNCHANGED <<args, store, out>>
    /\ UNCHANGED notRun

\* a period field of ExportData:
\* if all || flag { Some(tracker.query()?) } else { None }
ExportJsonPeriod(at, flag, query, next) ==
    /\ pc = at
    /\ IF Selected(args.all, args[flag])
       THEN /\ queries' = Append(queries, query)
            /\ \E a \in Answers(store[flag]) :
                  IF a = None
                  THEN /\ Return(Err(query))
                       /\ UNCHANGED export
                  ELSE /\ export' = [export EXCEPT ![flag] = Some(a[2])]
                       /\ pc' = next
                       /\ UNCHANGED outcome
       ELSE /\ export' = [export EXCEPT ![flag] = None]
            /\ pc' = next
            /\ UNCHANGED <<queries, outcome>>
    /\ UNCHANGED <<args, store, summary, out>>
    /\ UNCHANGED notRun

ExportJsonDaily ==
    ExportJsonPeriod("json_daily", "daily", "get_all_days", "json_weekly")
ExportJsonWeekly ==
    ExportJsonPeriod("json_weekly", "weekly", "get_by_week", "json_monthly")
ExportJsonMonthly ==
    ExportJsonPeriod("json_monthly", "monthly", "get_by_month", "json_print")

\* let json = serde_json::to_string_pretty(&export)?; println!(..); Ok(())
\* (the serializer of these numbers, strings and arrays does not fail)
ExportJsonPrint ==
    /\ pc = "json_print"
    /\ out' = Append(out, [section |-> "json", doc |-> Serialize(export)])
    /\ Return(Ok)
    /\ UNCHANGED <<args, store, summary, export, queries>>
    /\ UNCHANGED notRun

\* a section of export_csv:
\* if all || flag { let rows = tracker.query()?; println!(..); .. }
ExportCsvPeriod(at, flag, query, next) ==
    /\ pc = at
    /\ IF Selected(args.all, args[flag])
       THEN /\ queries' = Append(queries, query)
            /\ \E a \in Answers(store[flag]) :
                  IF a = None
                  THEN /\ Return(Err(query))
                       /\ UNCHANGED out
                  ELSE /\ out' = Append(out, [section |-> "csv_" \o flag,
                                              rows |-> a[2]])
                       /\ IF next = "done"
                          THEN Return(Ok)
                          ELSE pc' = next /\ UNCHANGED outcome
       ELSE /\ IF next = "done"
               THEN Return(Ok)
               ELSE pc' = next /\ UNCHANGED outcome
            /\ UNCHANGED <<out, queries>>
    /\ UNCHANGED <<args, store, summary, export>>
    /\ UNCHANGED notRun

ExportCsvDaily ==
    ExportCsvPeriod("csv_daily", "daily", "get_all_days", "csv_weekly")
ExportCsvWeekly ==
    ExportCsvPeriod("csv_weekly", "weekly", "get_by_week", "csv_monthly")
ExportCsvMonthly ==
    ExportCsvPeriod("csv_monthly", "monthly", "get_by_month", "done")

----------------------------------------------------------------------------
(***************************************************************************)
(* The specifications.                                                     *)
(***************************************************************************)
CanonNext ==
    \/ Canonicalize
    \/ CanonicalizeAgain

InitCanon == CanonInit /\ AggIdle /\ GraphIdle /\ RunIdle

SpecCanon == InitCanon /\ [][CanonNext]_vars

AggNext ==
    \/ AggStep
    \/ AggEmit

InitAgg == AggInit /\ CanonIdle /\ GraphIdle /\ RunIdle

SpecAgg == InitAgg /\ [][AggNext]_vars

GraphNext ==
    \/ GraphEmpty
    \/ GraphMax
    \/ GraphRow
    \/ GraphEnd

InitGraph == GraphInit /\ CanonIdle /\ AggIdle /\ RunIdle

SpecGraph == InitGraph /\ [][GraphNext]_vars

Next ==
    \/ RunTrackerNew
    \/ RunMatchFormat
    \/ RunGetSummary
    \/ RunNoData
    \/ RunDefaultView
    \/ RunGraph
    \/ RunHistory
    \/ RunQuota
    \/ RunPeriodViews
    \/ print_daily_full
    \/ print_weekly
    \/ print_monthly
    \/ ExportJsonSummary
    \/ ExportJsonDaily
    \/ ExportJsonWeekly
    \/ ExportJsonMonthly
    \/ ExportJsonPrint
    \/ ExportCsvDaily
    \/ ExportCsvWeekly
    \/ ExportCsvMonthly


Init == RunInit /\ CanonIdle /\ AggIdle /\ GraphIdle

Spec == Init /\ [][Next]_vars

----------------------------------------------------------------------------
(***************************************************************************)
(* The claims about normalize_by_command, under SpecAgg.                   *)
(***************************************************************************)
RECURSIVE SumSeq(_, _)
SumSeq(rows, field) ==
    IF rows = <<>> THEN 0 ELSE Head(rows)[field] + SumSeq(Tail(rows), field)

RECURSIVE SumMap(_, _, _)
SumMap(map, keys, field) ==
    IF keys = {} THEN 0
    ELSE LET k == CHOOSE x \in keys : TRUE
         IN map[k][field] + SumMap(map, keys \ {k}, field)

\* the canonical labels of the rows, in the order of the rows
CanonicalLabels(rows) == [i \in 1..Len(rows) |-> normalize_cmd_name(rows[i].cmd)]

\* a sequence without the later occurrences of each of its elements
FirstSeen(ls) ==
    LET keep == {i \in 1..Len(ls) : \A j \in 1..(i - 1) : ls[j] # ls[i]}
        nth(n) == CHOOSE i \in keep : Cardinality({j \in keep : j < i}) = n - 1
    IN [n \in 1..Cardinality(keep) |-> ls[nth(n)]]

Consumed == SubSeq(entries, 1, pos)

\* C1: the sums of the count fields and of the saved fields are the same
\* over the rows returned and over the rows given, and after every prefix
\* of the input the accumulators built so far sum to the sums of the prefix
C1_SumsPreserved ==
    astep \in {"loop", "done"} =>
        /\ SumMap(merged, DOMAIN merged, "count") = SumSeq(Consumed, "count")
        /\ SumMap(merged, DOMAIN merged, "saved") = SumSeq(Consumed, "saved")
        /\ astep = "done" =>
              /\ SumSeq(result, "count") = SumSeq(entries, "count")
              /\ SumSeq(result, "saved") = SumSeq(entries, "saved")

\* two rows of one canonical label have been merged into one row
C1_Witness ==
    /\ astep = "done"
    /\ Len(entries) = 3
    /\ Len(result) = 2
    /\ SumSeq(entries, "count") = 35
    /\ SumSeq(result, "saved") = 1800

\* C2: the labels of the rows returned are the canonical labels of the
\* rows given, without duplicates and in the order of first appearance; so
\* no label occurs twice, there are at most as many rows as given, fewer
\* when two rows share a canonical label, and none when none is given
C2_FirstSeenOrder ==
    /\ astep \in {"loop", "done"} => order = FirstSeen(CanonicalLabels(Consumed))
    /\ astep = "done" =>
          /\ [i \in 1..Len(result) |-> result[i].cmd]
                = FirstSeen(CanonicalLabels(entries))
          /\ \A i, j \in 1..Len(result) : result[i].cmd = result[j].cmd => i = j
          /\ Len(result) <= Len(entries)
          /\ (\E i, j \in 1..Len(entries) :
                 /\ i # j
                 /\ normalize_cmd_name(entries[i].cmd) = normalize_cmd_name(entries[j].cmd))
                => Len(result) < Len(entries)
          /\ entries = <<>> => result = <<>>

\* "rtk run-err", "rtk cat", "rtk err" give "rtk err" then "rtk cat": the
\* order of first appearance, which is neither the alphabetical order nor
\* the order of the saved tokens
C2_Witness ==
    /\ astep = "done"
    /\ Len(entries) = 3
    /\ entries[1].cmd = RtkRunErr
    /\ entries[2].cmd = RtkCat
    /\ entries[3].cmd = RtkErr
    /\ Len(result) = 2
    /\ result[1].cmd = RtkErr
    /\ result[2].cmd = RtkCat
    /\ result[1].saved < result[2].saved

\* the rows given whose canonical label is `name`
RowsOf(name) ==
    {i \in 1..Len(entries) : normalize_cmd_name(entries[i].cmd) = name}

RECURSIVE SumOver(_, _)
SumOver(is, f) ==
    IF is = {} THEN 0
    ELSE LET i == CHOOSE x \in is : TRUE IN f[i] + SumOver(is \ {i}, f)

TestRows == <<Row(RtkRunErr, 10, 500, 80, 100), Row(RtkErr, 5, 300, 75, 50)>>

\* C3: each row returned holds the count-weighted averages of the rows R
\* of its label: avg_time_ms is floor(sum of avg_time_ms * count over R,
\* divided by the sum C of the counts) and avg_savings_pct is the f64
\* quotient of the sum of avg_savings_pct * count by C, which is the real
\* quotient to within a thousandth; both are 0 when C is 0; and the rows
\* of the test merge to ("rtk err", 15, 800, 78.33.., 83)
C3_WeightedAverage ==
    astep = "done" =>
        /\ \A n \in 1..Len(result) :
              LET R == RowsOf(result[n].cmd)
                  Cnt == [i \in R |-> entries[i].count]
                  WTime == [i \in R |-> entries[i].avg_time * entries[i].count]
                  WPct == [i \in R |-> entries[i].pct * entries[i].count]
                  C == SumOver(R, Cnt)
                  f == FloorTimes(result[n].pct, 1000)
              IN IF C = 0
                 THEN result[n].avg_time = 0 /\ result[n].pct = F64Zero
                 ELSE /\ result[n].avg_time = SumOver(R, WTime) \div C
                      /\ result[n].pct = F64DivInt(SumOver(R, WPct), C)
                      /\ f * C <= 1000 * SumOver(R, WPct)
                      /\ 1000 * SumOver(R, WPct) < (f + 2) * C
        /\ entries = TestRows =>
              /\ Len(result) = 1
              /\ result[1].cmd = RtkErr
              /\ result[1].count = 15
              /\ result[1].saved = 800
              /\ FloorTimes(result[1].pct, 100) = 7833
              /\ result[1].avg_time = 83

\* the rows of the test have been merged
C3_Witness ==
    /\ astep = "done"
    /\ entries = TestRows
    /\ result[1].avg_time = 83

----------------------------------------------------------------------------
(***************************************************************************)
(* The claims about normalize_cmd_name, under SpecCanon.                   *)
(***************************************************************************)
\* C4: normalize_cmd_name applied to its own result changes nothing
C4_Idempotent == cstep = "twice" => twice = once

\* a label in which "rtk read" occurs twice has been canonicalized twice
C4_Witness ==
    /\ cstep = "twice"
    /\ label = RtkRead \o Space \o RtkRead
    /\ once = RtkCat \o Space \o RtkRead
    /\ twice = once

\* C5: "rtk run-err" gives "rtk err"; "rtk run-test" gives "rtk test"; a
\* label that is "rtk read" or starts with "rtk read " gets "rtk cat" in
\* the place of its first eight characters, the rest kept; every other
\* label is returned as it is
C5_Rules ==
    cstep # "start" =>
        /\ once = CASE label = RtkRunErr -> RtkErr
                    [] label = RtkRunTest -> RtkTest
                    [] label = RtkRead -> RtkCat
                    [] /\ Len(label) > Len(RtkRead)
                       /\ SubSeq(label, 1, Len(RtkRead) + 1) = RtkRead \o Space
                         -> RtkCat \o SubSeq(label, Len(RtkRead) + 1, Len(label))
                    [] OTHER -> label
        /\ label = RtkRead \o Space \o Dash => once = RtkCat \o Space \o Dash
        /\ label = RtkRead \o <<"m", "e">> => once = label
        /\ label = RtkRunErr \o Space \o Dash => once = label
        /\ label = RtkRead \o Space \o RtkRead => once = RtkCat \o Space \o RtkRead
        /\ label = RtkGitStatus => once = label

\* "rtk read -" has been canonicalized to "rtk cat -"
C5_Witness ==
    /\ cstep = "once"
    /\ label = RtkRead \o Space \o Dash
    /\ once = RtkCat \o Space \o Dash

----------------------------------------------------------------------------
(***************************************************************************)
(* The claim about print_ascii_graph, under SpecGraph.                     *)
(***************************************************************************)
\* C10: the bar of each row is floor(value * 40 / max) long, max the
\* largest value of the series: between 0 and 40, with a padding of
\* 40 - bar that is not negative, and 40 for a row holding the maximum;
\* when every value is 0 every bar is 0 long; an empty series prints nothing
C10_BarLength ==
    /\ \A i \in 1..Len(lines) :
          LET v == data[i].value
              mx == CHOOSE m \in {data[j].value : j \in 1..Len(data)} :
                       \A j \in 1..Len(data) : data[j].value <= m
          IN /\ lines[i].bar = IF mx = 0 THEN 0 ELSE (v * 40) \div mx
             /\ lines[i].bar \in 0..40
             /\ lines[i].spaces = 40 - lines[i].bar
             /\ lines[i].spaces >= 0
             /\ (v = mx /\ mx > 0) => lines[i].bar = 40
             /\ mx = 0 => lines[i].bar = 0
    /\ gstep = "done" => Len(lines) = Len(data)
    /\ data = <<>> => lines = <<>>

\* a series whose rows reach the full width, a part of it, and nothing
C10_Witness ==
    /\ gstep = "done"
    /\ Len(lines) = 3
    /\ data[1].value = 7
    /\ lines[1].bar = 23
    /\ lines[2].bar = 40
    /\ lines[3].bar = 0

----------------------------------------------------------------------------
(***************************************************************************)
(* The claims about run, under Spec.                                       *)
(***************************************************************************)
StoreQueries ==
    {"get_summary", "get_recent", "get_all_days", "get_by_week", "get_by_month"}

Issued == {queries[i] : i \in 1..Len(queries)}
Sections == {out[i].section : i \in 1..Len(out)}
IsText == args.format \notin {"json", "csv"}
Periods == {"daily", "weekly", "monthly"}
QueryOf(g) ==
    CASE g = "daily" -> "get_all_days"
      [] g = "weekly" -> "get_by_week"
      [] g = "monthly" -> "get_by_month"

\* C6: a run in which a query of the store fails ends in an error that
\* carries a context message, whichever the query and the format
C6_StoreErrorsCarryContext ==
    (pc = "done" /\ outcome.status = "err" /\ outcome.source \in StoreQueries)
        => outcome.context # <<>>

\* C7 as claimed: whatever the format, a run over a store whose summary
\* counts no command prints the no-data notice and nothing else, ends
\* successfully, and issues no query but get_summary
C7_NoDataEveryFormat ==
    (pc # "idle" /\ store.summary.total_commands = 0) =>
        /\ Issued \subseteq {"get_summary"}
        /\ (pc = "done" /\ outcome = Ok) => out = <<[section |-> "no_data"]>>

\* C7 as amended: in the text format, once get_summary has returned a
\* summary that counts no command the run issues no other query, prints
\* nothing but the no-data notice and ends successfully, whatever the
\* toggles
C7_NoDataText ==
    (IsText /\ summary # NoSummary /\ summary.total_commands = 0) =>
        /\ queries = <<"get_summary">>
        /\ pc \in {"no_data", "done"}
        /\ pc = "no_data" => out = <<>> /\ outcome = Running
        /\ pc = "done" => out = <<[section |-> "no_data"]>> /\ outcome = Ok

\* a text run with every toggle set has ended on the no-data notice
C7_Witness ==
    /\ pc = "done"
    /\ args.format = "text"
    /\ args.graph /\ args.history /\ args.quota
    /\ args.daily /\ args.weekly /\ args.monthly /\ args.all
    /\ summary.total_commands = 0
    /\ out = <<[section |-> "no_data"]>>

\* C8: the object a JSON export prints has the key `summary`, and each of
\* `daily`, `weekly`, `monthly` exactly when its flag or `all` is set, then
\* holding all the store returned, and otherwise no such key; the query of
\* a granularity was issued exactly when its key is there, and is never
\* issued for a granularity that is not selected
C8_JsonKeys ==
    args.format = "json" =>
        /\ \A g \in Periods : QueryOf(g) \in Issued => (args[g] \/ args.all)
        /\ (pc = "done" /\ outcome = Ok) =>
              /\ Len(out) = 1
              /\ out[1].section = "json"
              /\ "summary" \in DOMAIN out[1].doc
              /\ out[1].doc["summary"] = ExportSummary(store.summary)
              /\ \A g \in Periods :
                    /\ g \in DOMAIN out[1].doc <=> (args[g] \/ args.all)
                    /\ g \in DOMAIN out[1].doc => out[1].doc[g] = store[g]
                    /\ QueryOf(g) \in Issued <=> g \in DOMAIN out[1].doc

\* a JSON export with only `daily` set has printed `summary` and `daily`
C8_Witness ==
    /\ pc = "done"
    /\ outcome = Ok
    /\ args.format = "json"
    /\ args.daily /\ ~args.weekly /\ ~args.monthly /\ ~args.all
    /\ DOMAIN out[1].doc = {"summary", "daily"}

\* each of the three optional sections is printed exactly when its own
\* toggle is set and, for the graph and the history, there is data
SectionsAsToggled ==
    /\ "graph" \in Sections <=> (args.graph /\ summary.by_day # <<>>)
    /\ "history" \in Sections <=> (args.history /\ store.recent # <<>>)
    /\ "quota" \in Sections <=> args.quota

\* C9 as claimed: in a text run over a store that counts commands, the
\* graph, the history and the quota are each printed exactly when its own
\* toggle is set, whatever daily, weekly, monthly and all are
C9_SectionsEveryView ==
    (IsText /\ pc = "done" /\ outcome = Ok /\ summary.total_commands > 0)
        => SectionsAsToggled

\* C9 as amended: so it is in the summary view (none of daily, weekly,
\* monthly, all set) of a run that ends without a store error; with one of
\* the four set none of the three sections is printed
C9_SectionsDefaultView ==
    (IsText /\ pc = "done" /\ outcome = Ok /\ summary.total_commands > 0) =>
        IF ~args.daily /\ ~args.weekly /\ ~args.monthly /\ ~args.all
        THEN SectionsAsToggled
        ELSE Sections \cap {"graph", "history", "quota"} = {}

\* a summary view with the graph and the quota but no history
C9_Witness ==
    /\ IsText
    /\ pc = "done"
    /\ outcome = Ok
    /\ args.graph /\ ~args.history /\ args.quota
    /\ Sections = {"totals", "by_command", "graph", "quota"}

====
